---- MODULE Spec2Model ----
(***************************************************************************)
(* Model of the Easter Bush energy scenarios: the DataGetter that aligns   *)
(* the data files onto the simulation snapshots, the network builders of   *)
(* modeling/build_network.py, the extra constraints they hand to the LOPF  *)
(* solver, and the three scenario scripts.                                 *)
(*                                                                         *)
(* Time is counted in half-hour slots; slot 0 is a midnight.  Powers are   *)
(* in kW.  Efficiencies, c_m, c_v, nom_r and emissions are held in         *)
(* thousandths (0.468 is 468), coefficients of the linear constraints in   *)
(* millionths (a product of two thousandths).                              *)
(***************************************************************************)
EXTENDS Integers, Sequences, FiniteSets, TLC

VARIABLES
    mode,       \* "scenario": a run_scenario_N call; "api": direct calls on a DataGetter
    scenario,   \* which run_scenario_N is running (1..3), 0 in api mode
    args,       \* the scenario's arguments start, end (slots)
    files,      \* contents of the data files on disk
    pc,         \* index of the next statement of the scenario body, or of the api session
    error,      \* "none", or the exception that ended the run
    getter,     \* the DataGetter object
    network,    \* the pypsa.Network object
    funcs,      \* extra_functionality closures the scenario holds
    ret,        \* the value returned by the last call
    history     \* names of the statements executed so far, in order

vars == <<mode, scenario, args, files, pc, error, getter, network, funcs, ret, history>>

-----------------------------------------------------------------------------
(* Bounds of the model *)

\* the scenarios' end argument is at most start + MaxSpan slots
MaxSpan == 2

-----------------------------------------------------------------------------
(* Numbers *)

SlotsPerDay == 48

Max(a, b) == IF a >= b THEN a ELSE b

RECURSIVE GCD(_, _)
GCD(a, b) == IF b = 0 THEN a ELSE GCD(b, a % b)

\* a non-negative rational in lowest terms
Rat(n, d) == LET g == GCD(n, d) IN [num |-> n \div g, den |-> d \div g]

RECURSIVE SumSeq(_)
SumSeq(s) == IF s = <<>> THEN 0 ELSE Head(s) + SumSeq(Tail(s))

Range(s) == {s[i] : i \in DOMAIN s}

\* Python's  sub in s  on strings, held as sequences of characters
Contains(sub, s) ==
    \E i \in 1..(Len(s) - Len(sub) + 1) : SubSeq(s, i, i + Len(sub) - 1) = sub

-----------------------------------------------------------------------------
(* pandas: indexes and series *)

\* Python None, for a value that is otherwise a series
NoneSeries == [kind |-> "None", index |-> <<>>, values |-> <<>>]

\* a series with a DatetimeIndex (labels are slots)
DatetimeSeries(idx, vals) == [kind |-> "datetime", index |-> idx, values |-> vals]

\* pd.Series(array): the default RangeIndex 0..n-1
RangeSeries(vals) ==
    [kind |-> "range", index |-> [i \in 1..Len(vals) |-> i - 1], values |-> vals]

\* pd.date_range(start, end, freq): start, start+step, ... up to end inclusive
date_range(start, end, step) ==
    IF end < start THEN <<>>
    ELSE [i \in 1..((end - start) \div step + 1) |-> start + (i - 1) * step]

NoneFreq == [none |-> TRUE, s |-> <<>>]
SomeFreq(str) == [none |-> FALSE, s |-> str]

\* the offset alias pandas gives a step of so many half hours
FreqAlias(step) ==
    IF step = 1 THEN <<"3", "0", "T">>
    ELSE IF step = 2 THEN <<"H">>
    ELSE <<"2", "H">>

\* the step in slots of an offset alias
FreqStep(f) ==
    IF f.s = <<"3", "0", "T">> THEN 1 ELSE IF f.s = <<"H">> THEN 2 ELSE 4

\* pd.infer_freq(index): needs three dates; None unless the spacing is uniform
infer_freq_raises(idx) == Len(idx) < 3

infer_freq(idx) ==
    LET d == idx[2] - idx[1] IN
    IF \A i \in 1..(Len(idx) - 1) : idx[i + 1] - idx[i] = d
    THEN SomeFreq(FreqAlias(d)) ELSE NoneFreq

\* the bin labels of  x.resample(freq)  for data whose first and last
\* timestamps are lo and hi: bins are anchored at midnight, so at multiples of
\* the step, from the bin holding lo to the bin holding hi
resample_index(lo, hi, step) ==
    IF hi < lo THEN <<>>
    ELSE date_range(lo - (lo % step), hi - (hi % step), step)

\* x.loc[a:b] on a sorted DatetimeIndex: the labels between a and b inclusive
loc_slice(idx, a, b) == SelectSeq(idx, LAMBDA t : a <= t /\ t <= b)

-----------------------------------------------------------------------------
(* data/datagetter.py *)

\* pd.Timedelta(weeks=52) and pd.Timedelta(weeks=52, days=1), in slots
Weeks52 == 52 * 7 * SlotsPerDay
Weeks52Day1 == (52 * 7 + 1) * SlotsPerDay

\* constraint flows and limits are held in 1/MWUnit MW, which keeps the bin
\* means (of one or two readings) and the interpolated quantiles whole
MWUnit == 2 * 100 * 100

NoneFrame == [kind |-> "None", index |-> <<>>, limit |-> <<>>, flow |-> <<>>]

\* DataGetter.__init__: keeps the snapshots, infers their frequency, and
\* starts with every cache empty
DataGetterInit(snapshots) ==
    [ hasSnapshots    |-> snapshots.given,
      snapshots       |-> snapshots.idx,
      freq            |-> IF snapshots.given THEN infer_freq(snapshots.idx) ELSE NoneFreq,
      df_heat         |-> NoneSeries,
      df_elec         |-> NoneSeries,
      gas_cost        |-> NoneSeries,
      elec_cost       |-> NoneSeries,
      constraint_data |-> NoneFrame ]

\* the getter before it is constructed
NoGetter ==
    [ hasSnapshots |-> FALSE, snapshots |-> <<>>, freq |-> NoneFreq,
      df_heat |-> NoneSeries, df_elec |-> NoneSeries, gas_cost |-> NoneSeries,
      elec_cost |-> NoneSeries, constraint_data |-> NoneFrame ]

\* x.resample(self.freq) needs a frequency
resample_fails(g) == g.freq.none

\* the index after  if self.snapshots is not None: resample(freq); loc[s0:s-1]
\* of data whose timestamps run from lo to hi
AlignedIndex(g, lo, hi) ==
    IF g.hasSnapshots
    THEN loc_slice(resample_index(lo, hi, FreqStep(g.freq)),
                   g.snapshots[1], g.snapshots[Len(g.snapshots)])
    ELSE date_range(lo, hi, 1)

\* the slots of half-hourly data lo..hi that fall into the row labelled t
BinSlots(g, lo, hi, t) ==
    IF g.hasSnapshots
    THEN {u \in lo..hi : t <= u /\ u < t + FreqStep(g.freq)}
    ELSE {t}

RECURSIVE SumOver(_, _)
SumOver(f, S) ==
    IF S = {} THEN 0 ELSE LET x == CHOOSE y \in S : TRUE IN f[x] + SumOver(f, S \ {x})

\* ascending sort of a sequence of integers
RECURSIVE SortAsc(_)
SortAsc(s) ==
    IF s = <<>> THEN <<>>
    ELSE LET i == CHOOSE j \in DOMAIN s : \A k \in DOMAIN s : s[j] <= s[k]
         IN <<s[i]>> \o SortAsc(SubSeq(s, 1, i - 1) \o SubSeq(s, i + 1, Len(s)))

\* Series.quantile(pct/100), linear interpolation between order statistics
quantile(s, pct) ==
    LET x == SortAsc(s)
        h == (Len(s) - 1) * pct
        k == h \div 100
        r == h % 100
    IN  IF r = 0 THEN x[k + 1]
        ELSE x[k + 1] + (r * (x[k + 2] - x[k + 1])) \div 100

RECURSIVE MaxOfSeq(_)
MaxOfSeq(s) == IF Len(s) = 1 THEN s[1] ELSE Max(Head(s), MaxOfSeq(Tail(s)))

\* get_constraint_data past the cache test: the SCOTEX limit and flow,
\* shifted back 52 weeks, averaged onto the snapshots' frequency, cut to the
\* snapshot window; limits above the 95% quantile are replaced by the median
\* and flows are capped at the largest remaining limit
constraint_frame(g, f) ==
    LET lo  == f.lo - Weeks52
        hi  == f.hi - Weeks52
        idx == AlignedIndex(g, lo, hi)
        mean(col, t) ==
            LET S == BinSlots(g, lo, hi, t)
            IN  (SumOver([u \in S |-> col[u - lo + 1]], S) * MWUnit) \div Cardinality(S)
        lim0 == [i \in DOMAIN idx |-> mean(f.limit, idx[i])]
        flw0 == [i \in DOMAIN idx |-> mean(f.flow, idx[i])]
    IN  IF idx = <<>> THEN [kind |-> "datetime", index |-> idx, limit |-> <<>>, flow |-> <<>>]
        ELSE LET q1   == quantile(lim0, 50)
                 q2   == quantile(lim0, 95)
                 lim1 == [i \in DOMAIN idx |-> IF lim0[i] > q2 THEN q1 ELSE lim0[i]]
                 mx   == MaxOfSeq(lim1)
                 flw1 == [i \in DOMAIN idx |-> IF flw0[i] > mx THEN mx ELSE flw0[i]]
             IN  [kind |-> "datetime", index |-> idx, limit |-> lim1, flow |-> flw1]

\* DataGetter.get_constraint_data: [g: the getter afterwards, out: the frame
\* returned, err: the exception raised or "none"]
get_constraint_data(g, fs) ==
    IF g.constraint_data.kind # "None"
    THEN [g |-> g, out |-> g.constraint_data, err |-> "none"]
    ELSE IF g.hasSnapshots /\ resample_fails(g)
    THEN [g |-> g, out |-> NoneFrame, err |-> "ResampleWithoutFreq"]
    ELSE LET r == constraint_frame(g, fs.constraint)
         IN  [g |-> [g EXCEPT !.constraint_data = r], out |-> r, err |-> "none"]

\* fix_df_shape and the alignment of one meter file: 48 half-hourly readings
\* for each day of the file
demand_series(g, f) ==
    LET lo  == f.loDay * SlotsPerDay
        hi  == f.hiDay * SlotsPerDay + (SlotsPerDay - 1)
        idx == AlignedIndex(g, lo, hi)
    IN  DatetimeSeries(idx, [i \in DOMAIN idx |-> f.reading])

\* DataGetter.get_demand_data; out is <<df_heat, df_elec>>
get_demand_data(g, fs) ==
    IF g.df_heat.kind # "None"
    THEN [g |-> g, out |-> <<g.df_heat, g.df_elec>>, err |-> "none"]
    ELSE IF g.hasSnapshots /\ resample_fails(g)
    THEN [g |-> g, out |-> <<NoneSeries, NoneSeries>>, err |-> "ResampleWithoutFreq"]
    ELSE LET h == demand_series(g, fs.heat)
             e == demand_series(g, fs.elec)
         IN  [g |-> [g EXCEPT !.df_heat = h, !.df_elec = e],
              out |-> <<h, e>>, err |-> "none"]

\* Series.mean() of whole numbers, as a rational
mean_of(vals) == Rat(SumSeq(vals), Len(vals))

\* the gas price series before the static/time-varying choice: the daily
\* prices forward-filled onto the frequency, cut to the snapshot window and
\* given the electricity prices' index
gas_window(g, f) ==
    LET lo   == f.loDay * SlotsPerDay
        hi   == f.hiDay * SlotsPerDay
        full == resample_index(lo, hi, FreqStep(g.freq))
    IN  IF g.hasSnapshots
        THEN loc_slice(full, g.snapshots[1], g.snapshots[Len(g.snapshots)])
        ELSE full

gas_price_at(f, t) == f.price[(t \div SlotsPerDay) - f.loDay + 1]

\* gas['price'] before the static/time-varying choice
gas_values(g, f) ==
    LET gidx == gas_window(g, f) IN [i \in DOMAIN gidx |-> gas_price_at(f, gidx[i])]

\* DataGetter.get_market_data(static_gas_cost); out is <<gasprices, eprices>>
get_market_data(g, fs, static_gas_cost) ==
    IF g.elec_cost.kind # "None"
    THEN [g |-> g, out |-> <<g.gas_cost, g.elec_cost>>, err |-> "none"]
    ELSE IF resample_fails(g)
    THEN [g |-> g, out |-> <<NoneSeries, NoneSeries>>, err |-> "ResampleWithoutFreq"]
    ELSE LET eidx == AlignedIndex(g, fs.elec_cost.lo - Weeks52Day1,
                                     fs.elec_cost.hi - Weeks52Day1)
             gval == gas_values(g, fs.gas)
         IN  IF Len(gval) # Len(eidx)
             THEN [g |-> g, out |-> <<NoneSeries, NoneSeries>>, err |-> "ValueError"]
             ELSE LET gas == IF static_gas_cost
                             THEN RangeSeries([i \in DOMAIN gval |-> mean_of(gval)])
                             ELSE DatetimeSeries(eidx, [i \in DOMAIN gval |-> Rat(gval[i], 1)])
                      ep  == DatetimeSeries(eidx, [i \in DOMAIN eidx |-> fs.elec_cost.price])
                  IN  [g |-> [g EXCEPT !.gas_cost = gas, !.elec_cost = ep],
                       out |-> <<gas, ep>>, err |-> "none"]

-----------------------------------------------------------------------------
(* Python calls: binding of arguments to parameters *)

\* the parameters of the repository's callables (self left out) and how many
\* of them have no default
Signature(f) ==
    CASE f = "DataGetter" ->
            [params |-> <<"snapshots", "elec_cost_path", "gas_cost_path",
                          "heat_demand_path", "elec_demand_path">>, required |-> 0]
      [] f = "get_constraint_data" -> [params |-> <<>>, required |-> 0]
      [] f \in {"setup_carriers", "add_demand", "connect_elec_market",
                "add_boiler", "add_chp"} ->
            [params |-> <<"network", "getter">>, required |-> 2]
      [] f = "add_small_storage_and_heat_pump" ->
            [params |-> <<"network", "getter", "dT">>, required |-> 2]
      [] f = "add_seasonal_storage_and_heat_pump" ->
            [params |-> <<"network", "getter", "dT", "storage_e_nom">>, required |-> 2]
      [] f = "analyse" -> [params |-> <<"network">>, required |-> 1]

\* Python's argument binding: a call with npos positional arguments and the
\* keyword arguments kw raises TypeError unless every argument finds its own
\* parameter and every parameter without a default gets an argument
Binds(sig, call) ==
    /\ call.npos <= Len(sig.params)
    /\ call.kw \subseteq Range(sig.params)
    /\ \A i \in 1..call.npos : sig.params[i] \notin call.kw
    /\ \A i \in 1..sig.required : i <= call.npos \/ sig.params[i] \in call.kw

-----------------------------------------------------------------------------
(* pypsa.Network *)

NoFn == [x \in {} |-> 0]

\* pypsa.Network(): no components yet, no pyomo model, nothing solved
EmptyNetwork ==
    [ exists        |-> TRUE,
      snapshots_set |-> FALSE,
      snapshots     |-> <<>>,
      carriers      |-> NoFn,
      buses         |-> NoFn,
      generators    |-> NoFn,
      links         |-> NoFn,
      loads         |-> NoFn,
      stores        |-> NoFn,
      model         |-> NoFn,
      registered    |-> <<>>,
      added         |-> <<>>,
      solved        |-> FALSE,
      link_p_nom_opt  |-> NoFn,
      links_t_p0      |-> NoFn,
      links_t_p1      |-> NoFn,
      generators_t_p  |-> NoFn ]

NoNetwork == [EmptyNetwork EXCEPT !.exists = FALSE]

\* network.add(cls, name, **kwargs); added keeps the order of the calls
Add(n, cls, name, rec) ==
    LET m == [n EXCEPT !.added = Append(@, [cls |-> cls, name |-> name])] IN
    CASE cls = "Carrier"   -> [m EXCEPT !.carriers   = @ @@ (name :> rec)]
      [] cls = "Bus"       -> [m EXCEPT !.buses      = @ @@ (name :> rec)]
      [] cls = "Generator" -> [m EXCEPT !.generators = @ @@ (name :> rec)]
      [] cls = "Link"      -> [m EXCEPT !.links      = @ @@ (name :> rec)]
      [] cls = "Load"      -> [m EXCEPT !.loads      = @ @@ (name :> rec)]
      [] cls = "Store"     -> [m EXCEPT !.stores     = @ @@ (name :> rec)]

\* a time-varying attribute, stored as pd.Series(data=v, index=snapshots):
\* the value at each snapshot's label, NaN where the series has no such label
NaN == -1

Reindex(n, idx, vals) ==
    [i \in DOMAIN n.snapshots |->
        IF \E j \in DOMAIN idx : idx[j] = n.snapshots[i]
        THEN vals[CHOOSE j \in DOMAIN idx : idx[j] = n.snapshots[i]]
        ELSE NaN]

\* a static attribute broadcast over the snapshots
Static(n, v) == [i \in DOMAIN n.snapshots |-> v]

Bus(carrier) == [carrier |-> carrier]

Generator(bus, p_nom, p_max_pu, ramp_limit) ==
    [bus |-> bus, p_nom |-> p_nom, p_max_pu |-> p_max_pu, ramp_limit |-> ramp_limit]

\* a link; efficiency in thousandths
Link(bus0, bus1, efficiency, p_nom, p_nom_extendable) ==
    [bus0 |-> bus0, bus1 |-> bus1, efficiency |-> efficiency,
     p_nom |-> p_nom, p_nom_extendable |-> p_nom_extendable]

\* no ramp limit set
NoRamp == -1

-----------------------------------------------------------------------------
(* modeling/build_network.py: the builders *)

\* what a builder returns: the network and getter afterwards, the value it
\* returns (the name of an extra_functionality closure, or "None") and the
\* exception it raised, if any
Result(n, g, out, err) == [n |-> n, g |-> g, out |-> out, err |-> err]

\* emissions in thousandths of kg per kWh
ElecEmission == 24
GasEmission == 184

\* a variant that looks for the alias the scenarios pass to date_range
freq_is_30min(g) == g.freq.s = <<"3", "0", "m", "i", "n">>

\* '30' in getter.freq
freq_has_30(g) == Contains(<<"3", "0">>, g.freq.s)

\* '30' in getter.freq raises TypeError when the frequency is None
setup_carriers(n, g) ==
    IF g.freq.none
    THEN Result(n, g, "None", "TypeError")
    ELSE LET half == freq_has_30(g)
             elec == IF half THEN ElecEmission \div 2 ELSE ElecEmission
             gas  == IF half THEN GasEmission \div 2 ELSE GasEmission
             n1   == Add(n,  "Carrier", "elec", [co2_emissions |-> elec])
             n2   == Add(n1, "Carrier", "gas",  [co2_emissions |-> gas])
             n3   == Add(n2, "Carrier", "heat", [co2_emissions |-> 0])
         IN  Result(n3, g, "None", "none")

\* series.index = network.snapshots: needs equal lengths; the series object
\* itself is changed
SetIndexFails(n, series) == Len(series.index) # Len(n.snapshots)

WithSnapshotIndex(n, series) == DatetimeSeries(n.snapshots, series.values)

add_demand(n, g, fs) ==
    LET d == get_demand_data(g, fs) IN
    IF d.err # "none" THEN Result(n, d.g, "None", d.err)
    ELSE LET n1 == Add(n,  "Bus", "heatloadbus", Bus("heat"))
             n2 == Add(n1, "Bus", "elecloadbus", Bus("elec"))
             n3 == Add(n2, "Load", "heatload",
                       [bus |-> "heatloadbus", p_set |-> Reindex(n, d.out[1].index, d.out[1].values)])
             n4 == Add(n3, "Load", "elecload",
                       [bus |-> "elecloadbus", p_set |-> Reindex(n, d.out[2].index, d.out[2].values)])
         IN  Result(n4, d.g, "None", "none")

connect_elec_market(n, g, fs) ==
    LET m == get_market_data(g, fs, TRUE) IN
    IF m.err # "none" THEN Result(n, m.g, "None", m.err)
    ELSE LET d == get_demand_data(m.g, fs) IN
    IF d.err # "none" THEN Result(n, d.g, "None", d.err)
    ELSE IF SetIndexFails(n, m.out[2]) THEN Result(n, d.g, "None", "ValueError")
    ELSE LET elec_mcost == WithSnapshotIndex(n, m.out[2])
             \* the series is the getter's cached object: its index changes too
             g1 == [d.g EXCEPT !.elec_cost = elec_mcost]
             p_nom_elec == IF d.out[2].values = <<>> THEN NaN ELSE MaxOfSeq(d.out[2].values)
             n1 == Add(n,  "Bus", "elecmarketbus", Bus("elec"))
             n2 == Add(n1, "Generator", "elecmarket",
                       Generator("elecmarketbus", p_nom_elec, Static(n, 1), NoRamp))
             n3 == Add(n2, "Link", "elecmarket2elecload",
                       Link("elecmarketbus", "elecloadbus", 1000, p_nom_elec, FALSE))
         IN  Result(n3, g1, "None", "none")

BoilerPNom == 8000

add_boiler(n, g, fs) ==
    LET m == get_market_data(g, fs, TRUE) IN
    IF m.err # "none" THEN Result(n, m.g, "None", m.err)
    ELSE LET d == get_demand_data(m.g, fs) IN
    IF d.err # "none" THEN Result(n, d.g, "None", d.err)
    ELSE IF SetIndexFails(n, m.out[1]) THEN Result(n, d.g, "None", "ValueError")
    ELSE LET gas_mcost == WithSnapshotIndex(n, m.out[1])
             g1 == [d.g EXCEPT !.gas_cost = gas_mcost]
             n1 == Add(n,  "Bus", "gasmarket_boiler_bus", Bus("gas"))
             n2 == Add(n1, "Generator", "gasmarket_boiler",
                       Generator("gasmarket_boiler_bus", BoilerPNom, Static(n, 1), NoRamp))
             n3 == Add(n2, "Link", "boiler",
                       Link("gasmarket_boiler_bus", "heatloadbus", 900, BoilerPNom, FALSE))
         IN  Result(n3, g1, "None", "none")

\* chp parameters, in thousandths
nom_r == 1000
c_m == 750
c_v == 150

ChpGenPNom == 1500
ChpRampLimit == 10
Chp2HeatEfficiency == 900
Chp2ElecEfficiency == 468

\* network.links.at["chp2heat", "efficiency"] =
\*     network.links.at["chp2elec", "efficiency"] / c_v
chp2heat_efficiency(n) == (n.links["chp2elec"].efficiency * 1000) \div c_v

add_chp(n, g, fs) ==
    LET m == get_market_data(g, fs, TRUE) IN
    IF m.err # "none" THEN Result(n, m.g, "None", m.err)
    ELSE LET n1 == Add(n,  "Bus", "gasmarket_chp_bus", Bus("gas"))
             n2 == Add(n1, "Generator", "gasmarket_chp",
                       Generator("gasmarket_chp_bus", ChpGenPNom, Static(n, 1), ChpRampLimit))
             n3 == Add(n2, "Link", "chp2heat",
                       Link("gasmarket_chp_bus", "heatloadbus", Chp2HeatEfficiency, 0, TRUE))
             n4 == Add(n3, "Link", "chp2elec",
                       Link("gasmarket_chp_bus", "elecloadbus", Chp2ElecEfficiency, 0, TRUE))
             n5 == [n4 EXCEPT !.links["chp2heat"].efficiency = chp2heat_efficiency(n4)]
         IN  Result(n5, m.g, "chp_func", "none")

\* get_hp_cop(1500, dT=40) = (0.4113 ln 1500 - 0.2575) * 23.9 * 40^-0.747,
\* in thousandths
HeatpumpCop == 4179

HeatpumpPNom == 1500
StoreENom == 3500

heatpump_p_nom(g) == IF freq_has_30(g) THEN HeatpumpPNom \div 2 ELSE HeatpumpPNom

add_small_storage_and_heat_pump(n, g, fs) ==
    IF g.freq.none THEN Result(n, g, "None", "TypeError")
    ELSE LET d == get_demand_data(g, fs) IN
    IF d.err # "none" THEN Result(n, d.g, "None", d.err)
    ELSE LET p  == heatpump_p_nom(g)
             n1 == Add(n,  "Bus", "storebus", Bus("heat"))
             n2 == Add(n1, "Store", "store", [bus |-> "storebus", e_nom |-> StoreENom])
             n3 == Add(n2, "Link", "store2heatload",
                       Link("storebus", "heatloadbus", 900, p, FALSE))
             n4 == Add(n3, "Link", "heatpump2store",
                       Link("elecmarketbus", "storebus", HeatpumpCop, p, FALSE))
             n5 == Add(n4, "Link", "heatpump2load",
                       Link("elecmarketbus", "heatloadbus", HeatpumpCop, p, FALSE))
         IN  Result(n5, d.g, "heatpump_func", "none")

\* the threshold in MW under which SCOTEX headroom counts as curtailment
curtail_threshold == 100

CurtailGenPNom == 2000
HeatpumpStesPNom == 170

\* a variant that counts a headroom of exactly the threshold as curtailment
curt_inclusive(c) ==
    [i \in DOMAIN c.index |->
        IF c.limit[i] - c.flow[i] <= curtail_threshold * MWUnit THEN 1 ELSE 0]

\* curt = ((Limit - Flow) < curtail_threshold).astype(float), 1 or 0
curt(c) ==
    [i \in DOMAIN c.index |->
        IF c.limit[i] - c.flow[i] < curtail_threshold * MWUnit THEN 1 ELSE 0]

heatpump_stes_p_nom(g) ==
    IF freq_has_30(g) THEN HeatpumpStesPNom \div 2 ELSE HeatpumpStesPNom

\* storage_e_nom is the caller's, or half the summed heat demand
add_seasonal_storage_and_heat_pump(n, g, fs, storage_e_nom) ==
    LET d == get_demand_data(g, fs) IN
    IF d.err # "none" THEN Result(n, d.g, "None", d.err)
    ELSE LET c == get_constraint_data(d.g, fs) IN
    IF c.err # "none" THEN Result(n, c.g, "None", c.err)
    ELSE IF "heatpump2store" \notin DOMAIN n.links THEN Result(n, c.g, "None", "KeyError")
    ELSE IF c.g.freq.none THEN Result(n, c.g, "None", "TypeError")
    ELSE LET e_nom == IF storage_e_nom.given THEN storage_e_nom.value
                      ELSE SumSeq(d.out[1].values) \div 2
             n1 == Add(n,  "Bus", "curtailbus", Bus("elec"))
             n2 == Add(n1, "Generator", "curtailgen",
                       Generator("curtailbus", CurtailGenPNom,
                                 Reindex(n, c.out.index, curt(c.out)), NoRamp))
             n3 == Add(n2, "Bus", "stesbus", Bus("heat"))
             n4 == Add(n3, "Store", "stes", [bus |-> "stesbus", e_nom |-> e_nom])
             heatpump_cop == n.links["heatpump2store"].efficiency
             p  == heatpump_stes_p_nom(c.g)
             n5 == Add(n4, "Link", "heatpump2stes",
                       Link("curtailbus", "stesbus", heatpump_cop, p, FALSE))
             n6 == Add(n5, "Link", "stes2store",
                       Link("stesbus", "storebus", 950, p, FALSE))
         IN  Result(n6, c.g, "stes_extra_functionality", "none")

-----------------------------------------------------------------------------
(* modeling/build_network.py: the extra_functionality closures *)

\* One million: coefficients are held in millionths
Unit == 1000 * 1000

\* a term  coef * variable  of a linear constraint; the variable is
\* model.link_p[name, snapshot], model.link_p_nom[name], or the constant 1
Term(coef, var, name) == [coef |-> coef, var |-> var, name |-> name]

\* pyomo Constraint(rule=...) or Constraint(list(snapshots), rule=...)
LinConstraint(indexed, lhs, sense, rhs) ==
    [indexed |-> indexed, lhs |-> lhs, sense |-> sense, rhs |-> rhs]

\* network.model.<name> = Constraint(...): the block holds one component
\* under a name; registered lists the assignments in order
Register(n, name, c) ==
    [n EXCEPT !.model = [x \in (DOMAIN @) \cup {name} |-> IF x = name THEN c ELSE @[x]],
              !.registered = Append(@, name)]

\* a variant that states the proportion as an inequality
chp_nom_constraint_le(n) ==
    LinConstraint(FALSE,
        <<Term(n.links["chp2elec"].efficiency * nom_r, "link_p_nom", "chp2elec")>>,
        "<=",
        <<Term(n.links["chp2heat"].efficiency * 1000, "link_p_nom", "chp2heat")>>)

chp_nom_constraint(n) ==
    LinConstraint(FALSE,
        <<Term(n.links["chp2elec"].efficiency * nom_r, "link_p_nom", "chp2elec")>>,
        "==",
        <<Term(n.links["chp2heat"].efficiency * 1000, "link_p_nom", "chp2heat")>>)

\* a variant with the two links exchanged
backpressure_swapped(n) ==
    LinConstraint(TRUE,
        <<Term(c_m * n.links["chp2elec"].efficiency, "link_p", "chp2elec")>>,
        "<=",
        <<Term(n.links["chp2heat"].efficiency * 1000, "link_p", "chp2heat")>>)

backpressure(n) ==
    LinConstraint(TRUE,
        <<Term(c_m * n.links["chp2heat"].efficiency, "link_p", "chp2heat")>>,
        "<=",
        <<Term(n.links["chp2elec"].efficiency * 1000, "link_p", "chp2elec")>>)

\* a variant that leaves the heat link out of the sum
top_iso_fuel_line_elec_only(n) ==
    LinConstraint(TRUE,
        <<Term(Unit, "link_p", "chp2elec")>>,
        "<=",
        <<Term(Unit, "link_p_nom", "chp2elec")>>)

top_iso_fuel_line(n) ==
    LinConstraint(TRUE,
        <<Term(Unit, "link_p", "chp2heat"), Term(Unit, "link_p", "chp2elec")>>,
        "<=",
        <<Term(Unit, "link_p_nom", "chp2elec")>>)

\* the closure add_chp returns
chp_extra_functionality(n) ==
    LET n1 == Register(n,  "chp_nom", chp_nom_constraint(n))
        n2 == Register(n1, "backpressure", backpressure(n))
    IN  Register(n2, "top_iso_fuel_line", top_iso_fuel_line(n))

\* a variant that allows each link its own nominal power
heatpump_func_both_nominal(n) ==
    LinConstraint(TRUE,
        <<Term(Unit, "link_p", "heatpump2store"), Term(Unit, "link_p", "heatpump2load")>>,
        "<=",
        <<Term(n.links["heatpump2store"].p_nom * Unit, "one", ""),
          Term(n.links["heatpump2load"].p_nom * Unit, "one", "")>>)

heatpump_func(n) ==
    LinConstraint(TRUE,
        <<Term(Unit, "link_p", "heatpump2store"), Term(Unit, "link_p", "heatpump2load")>>,
        "<=",
        <<Term(n.links["heatpump2store"].p_nom * Unit, "one", "")>>)

\* the closure add_small_storage_and_heat_pump returns
heatpump_extra_functionality(n) == Register(n, "heatpump", heatpump_func(n))

\* a variant that leaves the seasonal store's link out of the sum
stes_heatpump_func_no_stes(n) ==
    LinConstraint(TRUE,
        <<Term(Unit, "link_p", "heatpump2store"), Term(Unit, "link_p", "heatpump2load")>>,
        "<=",
        <<Term(n.links["heatpump2store"].p_nom * Unit, "one", "")>>)

stes_heatpump_func(n) ==
    LinConstraint(TRUE,
        <<Term(Unit, "link_p", "heatpump2store"), Term(Unit, "link_p", "heatpump2load"),
          Term(Unit, "link_p", "heatpump2stes")>>,
        "<=",
        <<Term(n.links["heatpump2store"].p_nom * Unit, "one", "")>>)

\* the closure add_seasonal_storage_and_heat_pump returns
stes_extra_functionality(n) == Register(n, "heatpump", stes_heatpump_func(n))

\* calling a closure by the name the scenario bound it to
CallClosure(name, n) ==
    CASE name = "chp_func" -> chp_extra_functionality(n)
      [] name = "heatpump_func" -> heatpump_extra_functionality(n)
      [] name = "stes_extra_functionality" -> stes_extra_functionality(n)

RECURSIVE CallClosures(_, _)
CallClosures(names, n) ==
    IF names = <<>> THEN n ELSE CallClosures(Tail(names), CallClosure(Head(names), n))

-----------------------------------------------------------------------------
(* network.lopf: the solver *)

\* The links whose dispatch the solver model chooses.  The other links, the
\* loads and the stores are left free, so the points below include every
\* dispatch the real problem admits on the grid.
DispatchLinks(n) ==
    {"chp2heat", "chp2elec", "heatpump2store", "heatpump2load", "heatpump2stes"}
        \cap DOMAIN n.links

ExtendableLinks(n) == {l \in DispatchLinks(n) : n.links[l].p_nom_extendable}

\* the values the solver model tries for an extendable link's p_nom
NomGrid(l) == IF l = "chp2elec" THEN {0, 20} ELSE {0, 3}

\* the values the solver model tries for a link's power at a snapshot
FlowGrid(n, l) ==
    IF n.links[l].p_nom_extendable
    THEN (IF l = "chp2elec" THEN {0, 15, 20} ELSE {0, 3})
    ELSE {0, n.links[l].p_nom}

TermValue(t, nom, pt) ==
    CASE t.var = "link_p"     -> t.coef * pt[t.name]
      [] t.var = "link_p_nom" -> t.coef * nom[t.name]
      [] t.var = "one"        -> t.coef

RECURSIVE SideValue(_, _, _)
SideValue(terms, nom, pt) ==
    IF terms = <<>> THEN 0
    ELSE TermValue(Head(terms), nom, pt) + SideValue(Tail(terms), nom, pt)

Satisfies(c, nom, pt) ==
    IF c.sense = "=="
    THEN SideValue(c.lhs, nom, pt) = SideValue(c.rhs, nom, pt)
    ELSE SideValue(c.lhs, nom, pt) <= SideValue(c.rhs, nom, pt)

\* pypsa's own bound on a link: 0 <= p <= p_nom (the optimised one if extendable)
LinkBoundOK(n, nom, pt, l) ==
    /\ 0 <= pt[l]
    /\ pt[l] <= (IF n.links[l].p_nom_extendable THEN nom[l] ELSE n.links[l].p_nom)

\* buses where the model states pypsa's nodal balance: one generator, and
\* nothing else attached but dispatch links leaving the bus
BalancedBuses(n) ==
    {b \in DOMAIN n.buses :
        /\ Cardinality({g \in DOMAIN n.generators : n.generators[g].bus = b}) = 1
        /\ \A l \in DOMAIN n.links :
              (n.links[l].bus0 = b \/ n.links[l].bus1 = b)
                 => (l \in DispatchLinks(n) /\ n.links[l].bus0 = b)
        /\ \A x \in DOMAIN n.loads : n.loads[x].bus # b
        /\ \A x \in DOMAIN n.stores : n.stores[x].bus # b}

BalancedGenerators(n) ==
    {g \in DOMAIN n.generators : n.generators[g].bus \in BalancedBuses(n)}

\* nodal balance: the generator supplies what the links draw from its bus
GeneratorP(n, g, pt) ==
    LET L == {l \in DispatchLinks(n) : n.links[l].bus0 = n.generators[g].bus}
    IN  SumOver([l \in L |-> pt[l]], L)

\* pypsa's own bound on a generator: 0 <= p <= p_nom * p_max_pu[t]
GeneratorBoundOK(n, g, pt, t) ==
    GeneratorP(n, g, pt) <= n.generators[g].p_nom * n.generators[g].p_max_pu[t]

\* ramp_limit_up/down, per unit of p_nom
RampOK(n, g, pt0, pt1) ==
    \/ n.generators[g].ramp_limit = NoRamp
    \/ LET d == GeneratorP(n, g, pt1) - GeneratorP(n, g, pt0)
       IN  /\ d <= n.generators[g].ramp_limit * n.generators[g].p_nom
           /\ -d <= n.generators[g].ramp_limit * n.generators[g].p_nom

\* the choices of optimised nominal powers that meet the unindexed constraints
NomChoices(n) ==
    {nom \in [ExtendableLinks(n) -> UNION {NomGrid(l) : l \in ExtendableLinks(n)}] :
        /\ \A l \in ExtendableLinks(n) : nom[l] \in NomGrid(l)
        /\ \A k \in DOMAIN n.model :
              ~n.model[k].indexed => Satisfies(n.model[k], nom, NoFn)}

\* the dispatches of snapshot t that meet the bounds, the balance and the
\* constraints indexed by snapshot
FeasibleAt(n, nom, t) ==
    {pt \in [DispatchLinks(n) -> UNION {FlowGrid(n, l) : l \in DispatchLinks(n)}] :
        /\ \A l \in DispatchLinks(n) : pt[l] \in FlowGrid(n, l) /\ LinkBoundOK(n, nom, pt, l)
        /\ \A g \in BalancedGenerators(n) : GeneratorBoundOK(n, g, pt, t)
        /\ \A k \in DOMAIN n.model :
              n.model[k].indexed => Satisfies(n.model[k], nom, pt)}

\* the feasible dispatches of snapshots 1..t
RECURSIVE Dispatches(_, _, _)
Dispatches(n, nom, t) ==
    IF t = 0 THEN {<<>>}
    ELSE {Append(d, pt) : d \in Dispatches(n, nom, t - 1), pt \in FeasibleAt(n, nom, t)}

RampsOK(n, d) ==
    \A t \in 2..Len(d) : \A g \in BalancedGenerators(n) : RampOK(n, g, d[t - 1], d[t])

\* the network after a solve that returned nom and d: pypsa writes the
\* optimum back; p1 = -efficiency * p0 is what the link delivers to bus1
\* (here in thousandths of a kW)
Solved(n, nom, d) ==
    [n EXCEPT
        !.solved = TRUE,
        !.link_p_nom_opt = nom,
        !.links_t_p0 = [l \in DispatchLinks(n) |-> [t \in DOMAIN d |-> d[t][l]]],
        !.links_t_p1 = [l \in DispatchLinks(n) |->
                           [t \in DOMAIN d |-> -(n.links[l].efficiency * d[t][l])]],
        !.generators_t_p = [g \in BalancedGenerators(n) |->
                               [t \in DOMAIN d |-> GeneratorP(n, g, d[t])]]]

-----------------------------------------------------------------------------
(* scenario_1.py, scenario_2.py, scenario_3.py *)

\* scenario 3 with the seasonal storage built before the small one
Program_seasonal_first(sc) ==
    CASE sc = 1 -> <<"DataGetter", "Network", "setup_carriers", "set_snapshots",
                     "get_constraint_data", "add_demand", "connect_elec_market",
                     "add_boiler", "add_chp", "add_small_storage_and_heat_pump",
                     "lopf", "analyse">>
      [] sc = 2 -> <<"DataGetter", "Network", "setup_carriers", "set_snapshots",
                     "add_demand", "connect_elec_market",
                     "add_boiler", "add_chp", "add_small_storage_and_heat_pump",
                     "lopf", "analyse">>
      [] sc = 3 -> <<"DataGetter", "Network", "setup_carriers", "set_snapshots",
                     "get_constraint_data", "add_demand", "connect_elec_market",
                     "add_boiler", "add_chp", "add_seasonal_storage_and_heat_pump",
                     "add_small_storage_and_heat_pump", "lopf", "analyse">>

\* the calls of run_scenario_N's body, in order (printing and plotting left out)
Program(sc) ==
    CASE sc = 1 -> <<"DataGetter", "Network", "setup_carriers", "set_snapshots",
                     "get_constraint_data", "add_demand", "connect_elec_market",
                     "add_boiler", "add_chp", "add_small_storage_and_heat_pump",
                     "lopf", "analyse">>
      [] sc = 2 -> <<"DataGetter", "Network", "setup_carriers", "set_snapshots",
                     "add_demand", "connect_elec_market",
                     "add_boiler", "add_chp", "add_small_storage_and_heat_pump",
                     "lopf", "analyse">>
      [] sc = 3 -> <<"DataGetter", "Network", "setup_carriers", "set_snapshots",
                     "get_constraint_data", "add_demand", "connect_elec_market",
                     "add_boiler", "add_chp", "add_small_storage_and_heat_pump",
                     "add_seasonal_storage_and_heat_pump", "lopf", "analyse">>

Call(npos, kw) == [npos |-> npos, kw |-> kw]

\* the arguments each scenario passes at each call
CallSite(sc, f) ==
    CASE f = "DataGetter" ->
            IF sc = 1 THEN Call(0, {"snapshots", "static_elec_cost"})
            ELSE Call(0, {"snapshots"})
      [] f = "get_constraint_data" -> Call(0, {})
      [] f \in {"setup_carriers", "add_demand", "connect_elec_market",
                "add_boiler", "add_chp"} -> Call(2, {})
      [] f = "add_small_storage_and_heat_pump" ->
            IF sc = 1 THEN Call(2, {"p_nom"})
            ELSE IF sc = 2 THEN Call(3, {})
            ELSE Call(2, {"dT"})
      [] f = "add_seasonal_storage_and_heat_pump" -> Call(2, {"storage_e_nom", "dT"})
      [] f = "analyse" -> Call(2, {})

\* whether the scenario binds the value the call returns to a name
KeepsResult(sc, f) ==
    \/ f = "add_chp"
    \/ f = "add_small_storage_and_heat_pump" /\ sc = 2
    \/ f = "add_seasonal_storage_and_heat_pump"

\* the closures the scenario's own extra_functionality calls, in order
ExtraFunctionality(sc) ==
    CASE sc = 1 -> <<"chp_func">>
      [] sc = 2 -> <<"chp_func", "heatpump_func">>
      [] sc = 3 -> <<"chp_func", "stes_extra_functionality">>

\* storage_e_nom=400_000, the default of run_scenario_3
StorageENomDefault == 400000

NoRet == [call |-> "none", static |-> FALSE, out |-> "None"]

Stmt == Program(scenario)[pc]

Finished == mode = "scenario" /\ error = "none" /\ pc = Len(Program(scenario)) + 1

At(f) ==
    /\ mode = "scenario"
    /\ error = "none"
    /\ pc <= Len(Program(scenario))
    /\ Stmt = f

\* the call raises: the exception leaves run_scenario_N
Raise(e) ==
    /\ error' = e
    /\ UNCHANGED <<pc, getter, network, funcs, ret, history>>

\* the call returns
Return(f, res) ==
    /\ error' = "none"
    /\ pc' = pc + 1
    /\ getter' = res.g
    /\ network' = res.n
    /\ funcs' = IF KeepsResult(scenario, f) THEN funcs \cup {res.out} ELSE funcs
    /\ ret' = [call |-> f, static |-> FALSE, out |-> res.out]
    /\ history' = Append(history, f)

\* a call of one of the repository's functions from the scenario
CallFrom(f, res) ==
    IF ~Binds(Signature(f), CallSite(scenario, f)) THEN Raise("TypeError")
    ELSE IF res.err # "none" THEN Raise(res.err)
    ELSE Return(f, res)

Fixed == UNCHANGED <<mode, scenario, args, files>>

\* snapshots = pd.date_range(start, end, freq='30min')
ScenarioSnapshots == date_range(args.start, args.end, 1)

ConstructDataGetter ==
    /\ At("DataGetter")
    /\ CallFrom("DataGetter",
           IF infer_freq_raises(ScenarioSnapshots)
           THEN Result(network, getter, "None", "ValueError")
           ELSE Result(network,
                       DataGetterInit([given |-> TRUE, idx |-> ScenarioSnapshots]),
                       "None", "none"))
    /\ Fixed

NewNetwork ==
    /\ At("Network")
    /\ Return("Network", Result(EmptyNetwork, getter, "None", "none"))
    /\ Fixed

SetupCarriers ==
    /\ At("setup_carriers")
    /\ CallFrom("setup_carriers", setup_carriers(network, getter))
    /\ Fixed

\* network.snapshots = snapshots
SetSnapshots ==
    /\ At("set_snapshots")
    /\ Return("set_snapshots",
           Result([network EXCEPT !.snapshots = ScenarioSnapshots, !.snapshots_set = TRUE],
                  getter, "None", "none"))
    /\ Fixed

GetConstraintData ==
    /\ At("get_constraint_data")
    /\ LET c == get_constraint_data(getter, files)
       IN  CallFrom("get_constraint_data", Result(network, c.g, "None", c.err))
    /\ Fixed

AddDemand ==
    /\ At("add_demand")
    /\ CallFrom("add_demand", add_demand(network, getter, files))
    /\ Fixed

ConnectElecMarket ==
    /\ At("connect_elec_market")
    /\ CallFrom("connect_elec_market", connect_elec_market(network, getter, files))
    /\ Fixed

AddBoiler ==
    /\ At("add_boiler")
    /\ CallFrom("add_boiler", add_boiler(network, getter, files))
    /\ Fixed

AddChp ==
    /\ At("add_chp")
    /\ CallFrom("add_chp", add_chp(network, getter, files))
    /\ Fixed

AddSmallStorageAndHeatPump ==
    /\ At("add_small_storage_and_heat_pump")
    /\ CallFrom("add_small_storage_and_heat_pump",
                add_small_storage_and_heat_pump(network, getter, files))
    /\ Fixed

AddSeasonalStorageAndHeatPump ==
    /\ At("add_seasonal_storage_and_heat_pump")
    /\ CallFrom("add_seasonal_storage_and_heat_pump",
                add_seasonal_storage_and_heat_pump(network, getter, files,
                    [given |-> TRUE, value |-> args.storage_e_nom]))
    /\ Fixed

\* network.lopf(solver_name='gurobi', extra_functionality=extra_functionality):
\* pypsa builds the pyomo model, the scenario's extra_functionality adds its
\* constraints, and the solver returns one of the feasible points
Lopf ==
    /\ At("lopf")
    /\ Range(ExtraFunctionality(scenario)) \subseteq funcs
    /\ LET n1 == CallClosures(ExtraFunctionality(scenario), network)
           T  == Len(n1.snapshots)
       IN  \E nom \in NomChoices(n1) :
           \E d \in Dispatches(n1, nom, T) :
              /\ RampsOK(n1, d)
              /\ Return("lopf", Result(Solved(n1, nom, d), getter, "None", "none"))
    /\ Fixed

\* results = analyse(network, getter); the summary itself is not modelled
Analyse ==
    /\ At("analyse")
    /\ CallFrom("analyse", Result(network, getter, "summary", "none"))
    /\ Fixed

-----------------------------------------------------------------------------
(* the data files and arguments the scenarios are run on *)

\* the first day of the simulation window, as a slot
StartSlot == SlotsPerDay

ScenarioArgs ==
    {[start |-> StartSlot, end |-> StartSlot + span, storage_e_nom |-> StorageENomDefault] :
        span \in 2..MaxSpan}

MeterFile(loDay, hiDay, reading) == [loDay |-> loDay, hiDay |-> hiDay, reading |-> reading]

PriceFile(lo, hi, price) == [lo |-> lo, hi |-> hi, price |-> price]

GasFile(loDay, hiDay, price) == [loDay |-> loDay, hiDay |-> hiDay, price |-> price]

ConstraintFile(lo, hi, limit, flow) == [lo |-> lo, hi |-> hi, limit |-> limit, flow |-> flow]

\* the flow column of a constraint file of k half hours: under a limit of
\* 300 MW the SCOTEX headroom alternates between 100 MW (not curtailed) and
\* 99 MW (curtailed), starting with either
FlowPatterns(k) ==
    { [i \in 1..k |-> 200 + (i % 2)],
      [i \in 1..k |-> 201 - (i % 2)] }

\* files that cover the window a..b: meter readings and prices for the days
\* around it, and a constraint file for the half hours of the window
CoveringFiles(a, b) ==
    {[ heat       |-> MeterFile(0, 2, 5),
       elec       |-> MeterFile(0, 2, 7),
       elec_cost  |-> PriceFile(Weeks52Day1, Weeks52Day1 + 3 * SlotsPerDay, 10),
       gas        |-> GasFile(0, 3, <<3, 5, 4, 4>>),
       constraint |-> ConstraintFile(Weeks52 + a, Weeks52 + b,
                                     [i \in 1..(b - a + 1) |-> 300], flow) ] :
        flow \in FlowPatterns(b - a + 1)}

Init ==
    /\ mode = "scenario"
    /\ scenario \in 1..3
    /\ args \in ScenarioArgs
    /\ files \in CoveringFiles(args.start, args.end)
    /\ pc = 1
    /\ error = "none"
    /\ getter = NoGetter
    /\ network = NoNetwork
    /\ funcs = {}
    /\ ret = NoRet
    /\ history = <<>>

Next ==
    \/ ConstructDataGetter
    \/ NewNetwork
    \/ SetupCarriers
    \/ SetSnapshots
    \/ GetConstraintData
    \/ AddDemand
    \/ ConnectElecMarket
    \/ AddBoiler
    \/ AddChp
    \/ AddSmallStorageAndHeatPump
    \/ AddSeasonalStorageAndHeatPump
    \/ Lopf
    \/ Analyse

Spec == Init /\ [][Next]_vars

-----------------------------------------------------------------------------
(* direct use of a DataGetter and of setup_carriers, outside the scenarios *)

\* no snapshots passed: DataGetter()
NoSnapshots == [given |-> FALSE, idx |-> <<>>]

\* the snapshots a caller constructs the getter with: none, or a half-hourly
\* or hourly range that starts at 23:30 or at midnight
ApiSnapshots ==
    {NoSnapshots} \cup
    {[given |-> TRUE, idx |-> date_range(a, a + k * step, step)] :
        a \in {StartSlot - 1, StartSlot}, step \in {1, 2}, k \in 1..MaxSpan}

\* data files of differing extent: meter files and price files that cover
\* the snapshots or end before them, gas prices that change from day to day
\* or not, constraint files with and without an outlying limit or flow
ApiFiles ==
    {[ heat       |-> MeterFile(0, hiDay, 5),
       elec       |-> MeterFile(0, 2, 7),
       elec_cost  |-> PriceFile(Weeks52Day1, Weeks52Day1 + ehi, 10),
       gas        |-> gas,
       constraint |-> con ] :
        hiDay \in {0, 2},
        ehi \in {StartSlot, 3 * SlotsPerDay},
        gas \in {GasFile(0, 3, <<3, 5, 4, 4>>), GasFile(0, 3, <<4, 4, 4, 4>>),
                 GasFile(0, 1, <<3, 5>>)},
        con \in {ConstraintFile(Weeks52 + StartSlot - 2, Weeks52 + StartSlot + 5,
                                <<300, 300, 300, 300, 300, 300, 300, 300>>,
                                <<200, 201, 200, 201, 201, 200, 201, 200>>),
                 ConstraintFile(Weeks52 + StartSlot - 2, Weeks52 + StartSlot + 5,
                                <<300, 300, 900, 300, 280, 300, 300, 300>>,
                                <<200, 201, 400, 150, 201, 190, 201, 200>>),
                 ConstraintFile(Weeks52 + StartSlot - 2, Weeks52 + StartSlot + 1,
                                <<300, 300, 300, 300>>,
                                <<200, 201, 200, 201>>)}}

ApiInit ==
    /\ mode = "api"
    /\ scenario = 0
    /\ args = [start |-> 0, end |-> 0, storage_e_nom |-> 0]
    /\ files \in ApiFiles
    /\ pc = 0
    /\ error = "none"
    /\ getter = NoGetter
    /\ network = NoNetwork
    /\ funcs = {}
    /\ ret = NoRet
    /\ history = <<>>

ApiFixed == UNCHANGED <<mode, scenario, args, files, funcs, history>>

\* the getter exists and no call has raised
Ready == mode = "api" /\ pc = 1 /\ error = "none"

\* getter = DataGetter(snapshots=...)
ApiConstruct ==
    /\ mode = "api" /\ pc = 0 /\ error = "none"
    /\ \E snaps \in ApiSnapshots :
          IF snaps.given /\ infer_freq_raises(snaps.idx)
          THEN error' = "ValueError" /\ UNCHANGED <<pc, getter, ret>>
          ELSE /\ getter' = DataGetterInit(snaps)
               /\ pc' = 1
               /\ ret' = [call |-> "DataGetter", static |-> FALSE, out |-> "None"]
               /\ error' = "none"
    /\ UNCHANGED network
    /\ ApiFixed

\* a method call on the getter: its result, or its exception
ApiCall(f, static, r) ==
    IF r.err # "none"
    THEN error' = r.err /\ UNCHANGED <<pc, getter, ret>>
    ELSE /\ getter' = r.g
         /\ ret' = [call |-> f, static |-> static, out |-> r.out]
         /\ UNCHANGED <<pc, error>>

ApiGetDemandData ==
    /\ Ready
    /\ ApiCall("get_demand_data", FALSE, get_demand_data(getter, files))
    /\ UNCHANGED network
    /\ ApiFixed

ApiGetMarketData ==
    /\ Ready
    /\ \E b \in BOOLEAN : ApiCall("get_market_data", b, get_market_data(getter, files, b))
    /\ UNCHANGED network
    /\ ApiFixed

ApiGetConstraintData ==
    /\ Ready
    /\ ApiCall("get_constraint_data", FALSE, get_constraint_data(getter, files))
    /\ UNCHANGED network
    /\ ApiFixed

\* setup_carriers(pypsa.Network(), getter)
ApiSetupCarriers ==
    /\ Ready
    /\ LET r == setup_carriers(EmptyNetwork, getter)
       IN  /\ ApiCall("setup_carriers", FALSE, r)
           /\ network' = IF r.err = "none" THEN r.n ELSE network
    /\ ApiFixed

ApiNext ==
    \/ ApiConstruct
    \/ ApiGetDemandData
    \/ ApiGetMarketData
    \/ ApiGetConstraintData
    \/ ApiSetupCarriers

ApiSpec == ApiInit /\ [][ApiNext]_vars

-----------------------------------------------------------------------------
(* Properties *)

\* the solver has returned a dispatch for a network that holds the CHP
ChpSolved == mode = "scenario" /\ network.solved /\ "chp2heat" \in DOMAIN network.links

P0(l, t) == network.links_t_p0[l][t]

Snaps == DOMAIN network.snapshots

\* C1: each run_scenario_N runs its whole pipeline to the end: no call is
\* rejected with a TypeError for an argument the callee does not accept.
C1_NoCallRejected == mode = "scenario" => error # "TypeError"

\* the data files reach from the first to the last snapshot and the
\* snapshots start on a bin of their frequency
FilesCover ==
    /\ getter.hasSnapshots
    /\ LET a    == getter.snapshots[1]
           b    == getter.snapshots[Len(getter.snapshots)]
           step == FreqStep(getter.freq)
       IN  /\ a % step = 0
           /\ \A m \in {files.heat, files.elec} :
                 m.loDay * SlotsPerDay <= a /\ b <= m.hiDay * SlotsPerDay + (SlotsPerDay - 1)
           /\ files.elec_cost.lo - Weeks52Day1 <= a /\ b + step - 1 <= files.elec_cost.hi - Weeks52Day1
           /\ files.gas.loDay * SlotsPerDay <= a /\ b <= files.gas.hiDay * SlotsPerDay
           /\ files.constraint.lo - Weeks52 <= a /\ b + step - 1 <= files.constraint.hi - Weeks52

HasSnapshotIndex(x) == x.kind = "datetime" /\ x.index = getter.snapshots

\* C2: a getter constructed with snapshots returns, from get_demand_data,
\* get_market_data and get_constraint_data, only series and frames whose
\* index equals the snapshots.  Stated for data files that cover the
\* snapshots, the case most favourable to the claim.
C2_IndexEqualsSnapshots ==
    (Ready /\ FilesCover) =>
        /\ ret.call \in {"get_demand_data", "get_market_data"} =>
              HasSnapshotIndex(ret.out[1]) /\ HasSnapshotIndex(ret.out[2])
        /\ ret.call = "get_constraint_data" => HasSnapshotIndex(ret.out)

\* C3: get_market_data(static_gas_cost=b) returns a gas price series that is
\* constant at the window's mean price when b is True and the time-varying
\* series when b is False, whatever calls came before.
C3_StaticFlagDecides ==
    (Ready /\ ret.call = "get_market_data") =>
        LET raw == gas_values(getter, files.gas)
            gas == ret.out[1].values
        IN  IF ret.static
            THEN \A i \in DOMAIN gas : gas[i] = Rat(SumSeq(raw), Len(raw))
            ELSE gas = [i \in DOMAIN raw |-> Rat(raw[i], 1)]

\* C4: in every dispatch the solver returns for a network with the CHP, at
\* every snapshot 0.75 times the heat output (chp2heat's efficiency times its
\* input power) is at most the electrical output (chp2elec's efficiency times
\* its input power).
C4_Backpressure ==
    ChpSolved =>
        \A t \in Snaps :
            750 * (network.links["chp2heat"].efficiency * P0("chp2heat", t))
                <= 1000 * (network.links["chp2elec"].efficiency * P0("chp2elec", t))

\* the CHP delivers heat at some snapshot
C4_Witness == ChpSolved /\ \E t \in Snaps : P0("chp2heat", t) > 0

\* C5: in every dispatch the solver returns, at every snapshot the electrical
\* output plus 0.15 times the heat output is at most the nominal electrical
\* output (chp2elec's efficiency times its optimised nominal power).
C5_TopIsoFuelLine ==
    ChpSolved =>
        \A t \in Snaps :
            1000 * (network.links["chp2elec"].efficiency * P0("chp2elec", t))
              + 150 * (network.links["chp2heat"].efficiency * P0("chp2heat", t))
                <= 1000 * (network.links["chp2elec"].efficiency
                             * network.link_p_nom_opt["chp2elec"])

\* the CHP delivers heat and electricity in the same snapshot
C5_Witness ==
    ChpSolved /\ \E t \in Snaps : P0("chp2heat", t) > 0 /\ P0("chp2elec", t) > 0

\* C6: the optimised nominal powers of the CHP are proportional: chp2elec's
\* efficiency times nom_r = 1 times p_nom(chp2elec) equals chp2heat's
\* efficiency times p_nom(chp2heat).
C6_NominalProportional ==
    ChpSolved =>
        network.links["chp2elec"].efficiency * network.link_p_nom_opt["chp2elec"]
            = network.links["chp2heat"].efficiency * network.link_p_nom_opt["chp2heat"]

\* the solver has built a CHP of non-zero size
C6_Witness == ChpSolved /\ network.link_p_nom_opt["chp2elec"] > 0

\* C7: in scenario 2, at every snapshot heatpump2store and heatpump2load
\* together draw at most the nominal power of heatpump2store; they never both
\* run at full nominal power.
C7_HeatPumpShared ==
    (scenario = 2 /\ network.solved) =>
        \A t \in Snaps :
            /\ P0("heatpump2store", t) + P0("heatpump2load", t)
                  <= network.links["heatpump2store"].p_nom
            /\ ~(/\ P0("heatpump2store", t) = network.links["heatpump2store"].p_nom
                 /\ P0("heatpump2load", t) = network.links["heatpump2load"].p_nom)

\* in scenario 2 the heat pump charges the store at full nominal power
C7_Witness ==
    /\ scenario = 2 /\ network.solved
    /\ \E t \in Snaps : P0("heatpump2store", t) = network.links["heatpump2store"].p_nom

\* C8: in scenario 3, at every snapshot heatpump2store, heatpump2load and
\* heatpump2stes together draw at most the nominal power of heatpump2store,
\* and the constraint over the three links is the only one assigned to the
\* model name heatpump.
C8_HeatPumpSharedWithStes ==
    (scenario = 3 /\ network.solved) =>
        /\ \A t \in Snaps :
              P0("heatpump2store", t) + P0("heatpump2load", t) + P0("heatpump2stes", t)
                  <= network.links["heatpump2store"].p_nom
        /\ Cardinality({i \in DOMAIN network.registered :
                            network.registered[i] = "heatpump"}) = 1
        /\ {x.name : x \in Range(network.model["heatpump"].lhs)}
              = {"heatpump2store", "heatpump2load", "heatpump2stes"}

\* in scenario 3 the heat pump charges the seasonal store
C8_Witness ==
    scenario = 3 /\ network.solved /\ \E t \in Snaps : P0("heatpump2stes", t) > 0

\* SCOTEX Limit minus SCOTEX Flow at snapshot t, as get_constraint_data
\* returned them
Headroom(t) ==
    LET c == getter.constraint_data
        j == CHOOSE k \in DOMAIN c.index : c.index[k] = network.snapshots[t]
    IN  c.limit[j] - c.flow[j]

\* C9: with the seasonal store, heatpump2stes carries nothing at a snapshot
\* whose SCOTEX headroom is at least 100 MW; curtailgen's p_max_pu is 0 at
\* those snapshots and 1 at the others.
C9_StesChargedOnlyWhenCurtailed ==
    (mode = "scenario" /\ network.solved /\ "curtailgen" \in DOMAIN network.generators) =>
        \A t \in Snaps :
            IF Headroom(t) >= 100 * MWUnit
            THEN /\ P0("heatpump2stes", t) = 0
                 /\ network.generators["curtailgen"].p_max_pu[t] = 0
            ELSE network.generators["curtailgen"].p_max_pu[t] = 1

\* one snapshot has a headroom of 100 MW or more, and the seasonal store is
\* charged at another
C9_Witness ==
    /\ mode = "scenario" /\ network.solved /\ "curtailgen" \in DOMAIN network.generators
    /\ \E t \in Snaps : Headroom(t) >= 100 * MWUnit
    /\ \E t \in Snaps : P0("heatpump2stes", t) > 0

\* C10: setup_carriers registers elec, gas and heat with emissions of 0.024
\* and 0.184 kg/kWh for an hourly getter and half of each for a half-hourly
\* one, and does not return for a getter without a frequency.
C10_CarriersFollowTimeStep ==
    (mode = "api" /\ ret.call = "setup_carriers") =>
        /\ ~getter.freq.none
        /\ DOMAIN network.carriers = {"elec", "gas", "heat"}
        /\ getter.freq.s = <<"H">> =>
              /\ network.carriers["elec"].co2_emissions = 24
              /\ network.carriers["gas"].co2_emissions = 184
        /\ getter.freq.s = <<"3", "0", "T">> =>
              /\ 2 * network.carriers["elec"].co2_emissions = 24
              /\ 2 * network.carriers["gas"].co2_emissions = 184

\* setup_carriers has returned for a half-hourly getter
C10_Witness ==
    /\ mode = "api" /\ ret.call = "setup_carriers"
    /\ getter.freq.s = <<"3", "0", "T">>
    /\ network.carriers["gas"].co2_emissions = 92

-----------------------------------------------------------------------------
(* the order of the pipeline *)

Pos(seq, x) == CHOOSE i \in DOMAIN seq : seq[i] = x

Count(seq, x) == Cardinality({i \in DOMAIN seq : seq[i] = x})

Builders ==
    {"add_demand", "connect_elec_market", "add_boiler", "add_chp",
     "add_small_storage_and_heat_pump", "add_seasonal_storage_and_heat_pump"}

Entry(cls, name) == [cls |-> cls, name |-> name]

\* the buses the component of a network.add call is attached to
BusesOf(e) ==
    CASE e.cls = "Generator" -> {network.generators[e.name].bus}
      [] e.cls = "Load"      -> {network.loads[e.name].bus}
      [] e.cls = "Store"     -> {network.stores[e.name].bus}
      [] e.cls = "Link"      -> {network.links[e.name].bus0, network.links[e.name].bus1}
      [] OTHER               -> {}

AddedBefore(e, i) == \E j \in 1..(i - 1) : network.added[j] = e

\* the statements of run_scenario_N stand in the order of the dependencies
StatementOrder(P) ==
    /\ Count(P, "set_snapshots") = 1 /\ Count(P, "lopf") = 1 /\ Count(P, "analyse") = 1
    /\ \A i \in DOMAIN P :
          P[i] \in Builders => Pos(P, "set_snapshots") < i /\ i < Pos(P, "lopf")
    /\ Pos(P, "lopf") < Pos(P, "analyse")
    /\ Count(P, "add_seasonal_storage_and_heat_pump") > 0 =>
          /\ Count(P, "add_small_storage_and_heat_pump") > 0
          /\ Pos(P, "add_small_storage_and_heat_pump")
                < Pos(P, "add_seasonal_storage_and_heat_pump")

\* C11: in every scenario the pipeline order respects the dependencies:
\* snapshots are set before any bus, generator, link, load or store is added,
\* each of these is added after the buses it is attached to,
\* add_seasonal_storage_and_heat_pump runs only once link heatpump2store and
\* bus storebus exist, the solver runs once, after every builder of the
\* scenario, and analyse is called only on a solved network
C11_PipelineOrder ==
    mode = "scenario" =>
        /\ \A sc \in 1..3 : StatementOrder(Program(sc))
        /\ (\E i \in DOMAIN network.added : network.added[i].cls # "Carrier")
              => network.snapshots_set
        /\ \A i \in DOMAIN network.added :
              \A b \in BusesOf(network.added[i]) : AddedBefore(Entry("Bus", b), i)
        /\ At("add_seasonal_storage_and_heat_pump") =>
              /\ "heatpump2store" \in DOMAIN network.links
              /\ "storebus" \in DOMAIN network.buses
        /\ \A i \in DOMAIN network.added :
              network.added[i] = Entry("Bus", "curtailbus") =>
                  /\ AddedBefore(Entry("Link", "heatpump2store"), i)
                  /\ AddedBefore(Entry("Bus", "storebus"), i)
        /\ Count(history, "lopf") <= 1
        /\ network.solved =>
              /\ Count(history, "lopf") = 1
              /\ \A f \in Builders \cap Range(Program(scenario)) :
                    Count(history, f) = 1 /\ Pos(history, f) < Pos(history, "lopf")
        /\ (pc <= Len(Program(scenario)) /\ Stmt = "analyse") => network.solved
        /\ Count(history, "analyse") > 0 => network.solved

\* scenario 3 has built the whole network, solved it and reached analyse
C11_Witness ==
    /\ mode = "scenario" /\ scenario = 3
    /\ pc <= Len(Program(scenario)) /\ Stmt = "analyse"
    /\ network.solved
    /\ network.added[Len(network.added)] = Entry("Link", "stes2store")
    /\ Count(history, "add_small_storage_and_heat_pump") = 1

====
